---- MODULE Spec2Model ----
(***************************************************************************)
(* A model of easyfile (src/easyfile/core.py): array-like access to        *)
(* line-oriented files through a memory map.                               *)
(*                                                                         *)
(* Bytes are short strings ("a", "LF", ...).  Every byte of the alphabets  *)
(* used here is ASCII, so UTF-8 decoding maps a byte sequence to the       *)
(* character sequence with the same elements; os.linesep is "\n" (POSIX).  *)
(* Offsets are 0-based as in the code: byte k of a file is data[k + 1].    *)
(* A Python None is <<>> and a present value x is <<x>>.                   *)
(***************************************************************************)
EXTENDS Integers, Sequences, FiniteSets, TLC

VARIABLES
    fs,            \* the file system: path -> [exists, openable, data]
    views,         \* view id -> the instance: its state and its __dict__
    maps,          \* the mmap objects ever created, by id (1..Len(maps))
    fds,           \* the descriptors os.open ever returned, by id (1..Len(fds))
    offsetsCache,  \* the lru_cache of the _offsets property (LRU first)
    lengthCache,   \* the lru_cache of the _length property (LRU first)
    scans,         \* view id -> how many times _get_offsets ran for it
    pickled,       \* view id -> the last __getstate__ result taken from it
    gens,          \* generator id -> an iterate(start, end) generator
    res            \* the outcome of the last call

vars == <<fs, views, maps, fds, offsetsCache, lengthCache, scans, pickled, gens, res>>

(***************************************************************************)
(* Bounds of the model.                                                    *)
(***************************************************************************)
MaxLen == 3        \* longest file, in bytes
MaxYield == 5      \* a generator is driven for at most this many lines
MaxViews == 2      \* instances in the lifecycle specification
MaxMaps == 2       \* mmap objects created in the lifecycle specification
MaxScans == 2      \* _get_offsets runs counted per view

LF == "LF"
CR == "CR"

Min(a, b) == IF a < b THEN a ELSE b
Max(a, b) == IF a < b THEN b ELSE a

None == <<>>
Some(x) == <<x>>

(***************************************************************************)
(* Python sequence primitives.                                             *)
(***************************************************************************)
\* s[i] is defined for -len(s) <= i < len(s); otherwise IndexError.
PyIndexOk(s, i) == -Len(s) <= i /\ i < Len(s)
PyIndex(s, i) == s[(IF i < 0 THEN i + Len(s) ELSE i) + 1]

\* s[lo:hi] with integer bounds: negative bounds count from the end, then clamp.
PyClamp(i, n) == IF i < 0 THEN Max(i + n, 0) ELSE Min(i, n)
PySlice(s, lo, hi) == SubSeq(s, PyClamp(lo, Len(s)) + 1, PyClamp(hi, Len(s)))

\* str.rstrip(chars): drop every trailing character that is in chars.
RECURSIVE RStrip(_, _)
RStrip(s, chars) ==
    IF s # <<>> /\ s[Len(s)] \in chars THEN RStrip(SubSeq(s, 1, Len(s) - 1), chars) ELSE s

\* os.linesep on POSIX: rstrip(os.linesep) strips trailing "\n" characters.
Linesep == {LF}

\* slice.indices(length) for slice(start, stop, step); None is <<>>.
SliceIndices(start, stop, step, length) ==
    LET st == IF step = None THEN 1 ELSE step[1]
        lower == IF st < 0 THEN -1 ELSE 0
        upper == IF st < 0 THEN length - 1 ELSE length
        adj(b) == IF b[1] < 0 THEN Max(b[1] + length, lower) ELSE Min(b[1], upper)
        s0 == IF start = None THEN (IF st < 0 THEN upper ELSE lower) ELSE adj(start)
        e0 == IF stop = None THEN (IF st < 0 THEN lower ELSE upper) ELSE adj(stop)
    IN  <<s0, e0, st>>

\* list(range(start, stop, step)), step # 0.
RECURSIVE PyRange(_, _, _)
PyRange(start, stop, step) ==
    IF (step > 0 /\ start >= stop) \/ (step < 0 /\ start <= stop) THEN <<>>
    ELSE <<start>> \o PyRange(start + step, stop, step)

(***************************************************************************)
(* mmap primitives over the mapped bytes.                                  *)
(***************************************************************************)
\* mm.tell() after mm.readline() from pos: just past the next "\n", or EOF.
RECURSIVE ReadlineEnd(_, _)
ReadlineEnd(data, pos) ==
    IF pos >= Len(data) THEN Len(data)
    ELSE IF data[pos + 1] = LF THEN pos + 1
    ELSE ReadlineEnd(data, pos + 1)

\* mm.readline() from pos: the bytes read (b'' at EOF).
Readline(data, pos) == SubSeq(data, pos + 1, ReadlineEnd(data, pos))

\* mm.find(sub, start): lowest index >= start where sub occurs, or -1.
RECURSIVE MmFind(_, _, _)
MmFind(data, sub, start) ==
    IF start + Len(sub) > Len(data) THEN -1
    ELSE IF SubSeq(data, start + 1, start + Len(sub)) = sub THEN start
    ELSE MmFind(data, sub, start + 1)

(***************************************************************************)
(* _get_offsets of the three classes.                                      *)
(***************************************************************************)
\* [mm.tell() for _ in iter(mm.readline, b'')] from pos.
RECURSIVE ReadlineTells(_, _)
ReadlineTells(data, pos) ==
    IF pos >= Len(data) THEN <<>>
    ELSE <<ReadlineEnd(data, pos)>> \o ReadlineTells(data, ReadlineEnd(data, pos))

TextFile_get_offsets(data) == <<0>> \o ReadlineTells(data, 0)

CsvFile_get_offsets(data, header) ==
    IF header THEN Tail(TextFile_get_offsets(data)) ELSE TextFile_get_offsets(data)

RECURSIVE FindLoop(_, _, _)
FindLoop(data, newline, start) ==
    LET temp == MmFind(data, newline, start)
    IN  IF temp = -1 THEN <<>>
        ELSE <<temp + Len(newline)>> \o FindLoop(data, newline, temp + Len(newline))

CustomNewlineTextFile_get_offsets(data, newline) == <<0>> \o FindLoop(data, newline, 0)

\* The mapped bytes of a view, and the method its class binds to _get_offsets.
DataOf(v) == fs[views[v].path].data

GetOffsets(v) ==
    CASE views[v].cls = "TextFile" -> TextFile_get_offsets(DataOf(v))
      [] views[v].cls = "CsvFile" -> CsvFile_get_offsets(DataOf(v), views[v].header)
      [] OTHER -> CustomNewlineTextFile_get_offsets(DataOf(v), views[v].newline)

\* Where _get_offsets leaves the map's cursor: the readline scan ends at EOF,
\* the find loop never moves it after mm.seek(0).
CursorAfterScan(v) ==
    IF views[v].cls = "CustomNewlineTextFile" THEN 0 ELSE Len(DataOf(v))

(***************************************************************************)
(* functools.lru_cache(): one cache per decorated function, shared by all  *)
(* instances, keyed by self, holding at most LruMaxsize entries.           *)
(***************************************************************************)
LruMaxsize == 128

LruHas(cache, key) == \E k \in 1..Len(cache) : cache[k].key = key
LruValue(cache, key) == cache[CHOOSE k \in 1..Len(cache) : cache[k].key = key].val
LruTouch(cache, key) ==
    LET k == CHOOSE j \in 1..Len(cache) : cache[j].key = key
    IN  SubSeq(cache, 1, k - 1) \o SubSeq(cache, k + 1, Len(cache)) \o <<cache[k]>>
LruPut(cache, key, val) ==
    (IF Len(cache) >= LruMaxsize THEN Tail(cache) ELSE cache) \o <<[key |-> key, val |-> val]>>

\* The caches, the maps and the scan counts, threaded through one call.
Heap == [oc |-> offsetsCache, lc |-> lengthCache, mp |-> maps, sc |-> scans]

\* self._offsets: the cached table, or _get_offsets() run and cached.
OffsetsValue(H, v) ==
    IF LruHas(H.oc, v) THEN LruValue(H.oc, v) ELSE GetOffsets(v)
AfterOffsets(H, v) ==
    IF LruHas(H.oc, v) THEN [H EXCEPT !.oc = LruTouch(H.oc, v)]
    ELSE [H EXCEPT !.oc = LruPut(H.oc, v, GetOffsets(v)),
                   !.mp[views[v].mm].pos = CursorAfterScan(v),
                   !.sc[v] = Min(H.sc[v] + 1, MaxScans)]

\* self._length: the cached count, or len(self._offsets) - 1 computed and cached.
LengthValue(H, v) ==
    IF LruHas(H.lc, v) THEN LruValue(H.lc, v) ELSE Len(OffsetsValue(H, v)) - 1
AfterLength(H, v) ==
    IF LruHas(H.lc, v) THEN [H EXCEPT !.lc = LruTouch(H.lc, v)]
    ELSE [AfterOffsets(H, v) EXCEPT !.lc = LruPut(H.lc, v, Len(OffsetsValue(H, v)) - 1)]

SetHeap(H) ==
    /\ offsetsCache' = H.oc
    /\ lengthCache' = H.lc
    /\ maps' = H.mp
    /\ scans' = H.sc

Ok(val) == [tag |-> "ok", val |-> val]
Raise(err) == [tag |-> err, val |-> <<>>]

(***************************************************************************)
(* TextFile.getline and TextFile.__getitem__.                              *)
(***************************************************************************)
\* TextFile.__getitem__ with the upper bound test off by one.
TextFile_getitem_OffByOne(offsets, length, data, index) ==
    IF index >= 0
    THEN IF index > length THEN Raise("IndexError")
         ELSE LET pair == PySlice(offsets, index, index + 2)
              IN  IF Len(pair) # 2 THEN Raise("ValueError")
                  ELSE Ok(RStrip(PySlice(data, pair[1], pair[2]), Linesep))
    ELSE IF index < -length THEN Raise("IndexError")
         ELSE LET pair == PySlice(offsets, index, index + 2)
              IN  IF Len(pair) # 2 THEN Raise("ValueError")
                  ELSE Ok(RStrip(PySlice(data, pair[1], pair[2]), Linesep))

\* start, end = self._offsets[i: i + 2] unpacks exactly two offsets.
TextFile_getline(offsets, data, i) ==
    LET pair == PySlice(offsets, i, i + 2)
    IN  IF Len(pair) # 2 THEN Raise("ValueError")
        ELSE Ok(RStrip(PySlice(data, pair[1], pair[2]), Linesep))

TextFile_getitem(offsets, length, data, index) ==
    IF index >= 0
    THEN IF index >= length THEN Raise("IndexError")
         ELSE TextFile_getline(offsets, data, index)
    ELSE IF index < -length THEN Raise("IndexError")
         ELSE TextFile_getline(offsets, data, index + length)

\* [self.getline(i) for i in range(start, stop, step)]
RECURSIVE GetLines(_, _, _)
GetLines(offsets, data, idx) ==
    IF idx = <<>> THEN <<>>
    ELSE <<TextFile_getline(offsets, data, Head(idx)).val>> \o GetLines(offsets, data, Tail(idx))

TextFile_getslice(offsets, length, data, sl) ==
    LET ind == SliceIndices(sl[1], sl[2], sl[3], length)
    IN  GetLines(offsets, data, PyRange(ind[1], ind[2], ind[3]))

(***************************************************************************)
(* Whole-file iteration: io.open(path) in text mode reads with universal   *)
(* newlines, so "\n", "\r" and "\r\n" each end a line and reach the        *)
(* caller as "\n".                                                         *)
(***************************************************************************)
\* Index of the first "\n" or "\r" of s, or 0.
RECURSIVE FirstBreak(_, _)
FirstBreak(s, k) ==
    IF k > Len(s) THEN 0
    ELSE IF s[k] \in {LF, CR} THEN k
    ELSE FirstBreak(s, k + 1)

\* The lines a text-mode file object yields, terminators translated.
RECURSIVE TextModeLines(_)
TextModeLines(s) ==
    IF s = <<>> THEN <<>>
    ELSE LET k == FirstBreak(s, 1)
         IN  IF k = 0 THEN <<s>>
             ELSE LET skip == IF s[k] = CR /\ k < Len(s) /\ s[k + 1] = LF THEN k + 1 ELSE k
                  IN  <<SubSeq(s, 1, k - 1) \o <<LF>>>> \o TextModeLines(SubSeq(s, skip + 1, Len(s)))

RECURSIVE RStripEach(_)
RStripEach(lines) ==
    IF lines = <<>> THEN <<>>
    ELSE <<RStrip(Head(lines), Linesep)>> \o RStripEach(Tail(lines))

\* TextFile.__iter__: for line in fp: yield line.rstrip(os.linesep)
TextFile_iter(data) == RStripEach(TextModeLines(data))

\* CustomNewlineTextFile.__iter__: mm[start: end] for each pair of zip(offsets, offsets[1:]).
RECURSIVE ZipSegments(_, _)
ZipSegments(offsets, data) ==
    IF Len(offsets) < 2 THEN <<>>
    ELSE <<RStrip(PySlice(data, offsets[1], offsets[2]), Linesep)>> \o ZipSegments(Tail(offsets), data)

CustomNewlineTextFile_iter(offsets, data) == ZipSegments(offsets, data)

(***************************************************************************)
(* The csv module on the alphabet used here (no quote character, no "\r"): *)
(* csv.reader splits a line at the delimiter after dropping its "\n"; an   *)
(* empty line is the row [].  csv.DictReader skips the rows that are [],   *)
(* and builds dict(zip(fieldnames, row)) with the surplus values under the *)
(* key None (restkey) and None (restval) for the missing ones.             *)
(***************************************************************************)
Delimiter == ","

RECURSIVE SplitFields(_, _)
SplitFields(line, cur) ==
    IF line = <<>> THEN <<cur>>
    ELSE IF Head(line) = Delimiter THEN <<cur>> \o SplitFields(Tail(line), <<>>)
    ELSE SplitFields(Tail(line), Append(cur, Head(line)))

CsvRow(line) ==
    LET body == IF line # <<>> /\ line[Len(line)] = LF THEN SubSeq(line, 1, Len(line) - 1) ELSE line
    IN  IF body = <<>> THEN <<>> ELSE SplitFields(body, <<>>)

ListRecord(row) == [t |-> "list", f |-> row, d |-> <<>>, rest |-> <<>>]

\* dict(zip(fieldnames, row)): a repeated field name keeps its last value.
DictRecord(fieldnames, row) ==
    LET keys == {fieldnames[k] : k \in 1..Len(fieldnames)}
        last(key) == CHOOSE k \in 1..Len(fieldnames) :
                        /\ fieldnames[k] = key
                        /\ \A j \in 1..Len(fieldnames) : fieldnames[j] = key => j <= k
    IN  [t |-> "dict",
         f |-> <<>>,
         d |-> [key \in keys |-> IF last(key) <= Len(row) THEN Some(row[last(key)]) ELSE None],
         rest |-> SubSeq(row, Len(fieldnames) + 1, Len(row))]

\* list(self._reader(lines)): csv.reader, or csv.DictReader when header is set.
RECURSIVE ReadRecords(_, _, _)
ReadRecords(lines, header, fieldnames) ==
    IF lines = <<>> THEN <<>>
    ELSE LET row == CsvRow(Head(lines))
             rest == ReadRecords(Tail(lines), header, fieldnames)
         IN  IF ~header THEN <<ListRecord(row)>> \o rest
             ELSE IF row = <<>> THEN rest
             ELSE <<DictRecord(fieldnames, row)>> \o rest

\* CsvFile.__init__: fieldnames = next(csv.reader(fp)), the first line's row.
HeaderFieldnames(data) ==
    IF TextModeLines(data) = <<>> THEN <<>> ELSE CsvRow(Head(TextModeLines(data)))

\* CsvFile.__iter__: skip the header line, then yield from self._reader(fp).
CsvFile_iter(data, header, fieldnames) ==
    LET lines == TextModeLines(data)
    IN  ReadRecords(IF header /\ lines # <<>> THEN Tail(lines) ELSE lines, header, fieldnames)

\* CsvFile.__getitem__ on what TextFile.__getitem__ returned: x is the list of
\* raw lines (one line, wrapped, for an integer index).
CsvFile_getitem(x, header, fieldnames) ==
    LET row == ReadRecords(x, header, fieldnames)
    IN  IF Len(row) = 1 THEN [shape |-> "record", rows |-> row]
        ELSE [shape |-> "list", rows |-> row]


(***************************************************************************)
(* The state: instances, maps, descriptors.                                *)
(***************************************************************************)
Paths == {"p", "q", "e", "x", "n"}
ViewIds == 1..MaxViews
GenIds == {1, 2}

\* An instance before __init__ or __setstate__ ran: an empty __dict__.
BlankView ==
    [st |-> "blank", cls |-> "TextFile", path |-> "", mm |-> 0, header |-> FALSE,
     fieldnames |-> <<>>, newline |-> <<>>, src |-> 0, err |-> ""]

NoGen ==
    [st |-> "none", v |-> 0, start |-> 0, end |-> 0, mm |-> 0, stop |-> 0, out |-> <<>>, err |-> ""]

NoRes == [op |-> "none", v |-> 0, arg |-> <<>>, out |-> Raise("none")]

\* mmap.mmap(fd, 0, access=ACCESS_READ): a new map of the file, cursor at 0.
NewMap(path) == [path |-> path, open |-> TRUE, pos |-> 0, closedBy |-> ""]

Live(v) == views[v].st = "live"

(***************************************************************************)
(* The read calls on a live view.                                          *)
(***************************************************************************)
\* TextFile.__len__
LenCall(v) == [out |-> Ok(LengthValue(Heap, v)), heap |-> AfterLength(Heap, v)]

\* TextFile.__getitem__ with an integer: the bounds test reads self._length,
\* getline reads self._offsets.
IntItemCall(v, index) ==
    LET length == LengthValue(Heap, v)
        H1 == AfterLength(Heap, v)
        inRange == IF index >= 0 THEN index < length ELSE index >= -length
    IN  IF inRange
        THEN [out |-> TextFile_getitem(OffsetsValue(H1, v), length, DataOf(v), index),
              heap |-> AfterOffsets(H1, v)]
        ELSE [out |-> TextFile_getitem(<<>>, length, DataOf(v), index), heap |-> H1]

\* TextFile.__getitem__ with a slice.
SliceItemCall(v, sl) ==
    LET length == LengthValue(Heap, v)
        H1 == AfterLength(Heap, v)
        ind == SliceIndices(sl[1], sl[2], sl[3], length)
    IN  IF PyRange(ind[1], ind[2], ind[3]) = <<>>
        THEN [out |-> Ok(<<>>), heap |-> H1]
        ELSE [out |-> Ok(TextFile_getslice(OffsetsValue(H1, v), length, DataOf(v), sl)),
              heap |-> AfterOffsets(H1, v)]

\* CsvFile.__getitem__ wraps what TextFile.__getitem__ returned.
CsvWrap(v, call, isSlice) ==
    IF views[v].cls # "CsvFile" \/ call.out.tag # "ok" THEN call
    ELSE [call EXCEPT !.out = Ok(CsvFile_getitem(IF isSlice THEN call.out.val ELSE <<call.out.val>>,
                                                  views[v].header, views[v].fieldnames))]

\* list(view): __iter__ of the view's class, driven to the end.
IterCall(v) ==
    CASE views[v].cls = "TextFile" -> [out |-> Ok(TextFile_iter(DataOf(v))), heap |-> Heap]
      [] views[v].cls = "CsvFile" ->
            [out |-> Ok(CsvFile_iter(DataOf(v), views[v].header, views[v].fieldnames)), heap |-> Heap]
      [] OTHER ->
            [out |-> Ok(CustomNewlineTextFile_iter(OffsetsValue(Heap, v), DataOf(v))),
             heap |-> AfterOffsets(Heap, v)]

Indices == -(MaxLen + 1)..(MaxLen + 1)
SliceBounds == {None, Some(-1), Some(0), Some(1)}
SliceSteps == {None, Some(-1)}

Call(op, v, arg, call) ==
    /\ res' = [op |-> op, v |-> v, arg |-> arg, out |-> call.out]
    /\ SetHeap(call.heap)
    /\ UNCHANGED <<fs, views, fds, pickled, gens>>

Length(v) ==
    /\ Live(v)
    /\ Call("len", v, <<>>, LenCall(v))

GetItem(v, index) ==
    /\ Live(v)
    /\ Call("get", v, index, CsvWrap(v, IntItemCall(v, index), FALSE))

GetSlice(v, sl) ==
    /\ Live(v)
    /\ Call("slice", v, sl, CsvWrap(v, SliceItemCall(v, sl), TRUE))

IterAll(v) ==
    /\ Live(v)
    /\ Call("iter", v, <<>>, IterCall(v))

(***************************************************************************)
(* Spec: one view of each class over every small file, read in any order.  *)
(***************************************************************************)
SeqsUpTo(S, n) == UNION {[1..k -> S] : k \in 1..n}

TextAlphabet == {"a", LF, CR}
CsvAlphabet == {"a", Delimiter, LF}
CustomAlphabet == {"a", "|", LF}
Newlines == {<<"|", "|">>, <<LF, LF>>}

\* The views read_text and read_csv can return over a non-empty file.
ReadViews ==
    {[BlankView EXCEPT !.st = "live", !.cls = "TextFile", !.path = "p", !.mm = 1]}
    \cup {[BlankView EXCEPT !.st = "live", !.cls = "CsvFile", !.path = "p", !.mm = 1,
                            !.header = h] : h \in BOOLEAN}
    \cup {[BlankView EXCEPT !.st = "live", !.cls = "CustomNewlineTextFile", !.path = "p",
                            !.mm = 1, !.newline = nl] : nl \in Newlines}

AlphabetOf(cls) ==
    CASE cls = "TextFile" -> TextAlphabet
      [] cls = "CsvFile" -> CsvAlphabet
      [] OTHER -> CustomAlphabet

File(data) == [exists |-> TRUE, openable |-> TRUE, data |-> data]
NoFile == [exists |-> FALSE, openable |-> FALSE, data |-> <<>>]

\* The state after the constructor of one view returned: the map is open, the
\* descriptor it was made from is closed, nothing is indexed.
InitRead ==
    \E view \in ReadViews : \E data \in SeqsUpTo(AlphabetOf(view.cls), MaxLen) :
        /\ fs = [p \in Paths |-> IF p = "p" THEN File(data) ELSE NoFile]
        /\ views = [v \in ViewIds |->
                      IF v = 1
                      THEN [view EXCEPT !.fieldnames =
                               IF view.header THEN HeaderFieldnames(data) ELSE <<>>]
                      ELSE BlankView]
        /\ maps = <<NewMap("p")>>
        /\ fds = <<[open |-> FALSE, closes |-> 1]>>
        /\ offsetsCache = <<>>
        /\ lengthCache = <<>>
        /\ scans = [v \in ViewIds |-> 0]
        /\ pickled = [v \in ViewIds |-> None]
        /\ gens = [g \in GenIds |-> NoGen]
        /\ res = NoRes

Init == InitRead

Next ==
    \/ Length(1)
    \/ \E index \in Indices : GetItem(1, index)
    \/ \E start \in SliceBounds, stop \in SliceBounds, step \in SliceSteps :
          GetSlice(1, <<start, stop, step>>)
    \/ IterAll(1)

Spec == Init /\ [][Next]_vars


(***************************************************************************)
(* Claims about the read calls, checked under Spec.                        *)
(***************************************************************************)
\* What get(i) returns in the current state, and length().
ItemNow(i) == CsvWrap(1, IntItemCall(1, i), FALSE).out
LengthNow == LenCall(1).out.val
ClassIs(cls) == views[1].cls = cls

\* C1: for a default-newline TextFile over any file content, a full pass of
\* the iterator yields exactly length() lines and its i-th line equals get(i).
C1_IterationAgreesWithIndex ==
    (ClassIs("TextFile") /\ res.op = "iter") =>
        /\ Len(res.out.val) = LengthNow
        /\ \A i \in 0..(LengthNow - 1) : ItemNow(i) = Ok(res.out.val[i + 1])

\* C2: integer indexing on a TextFile of length N succeeds exactly when
\* -N <= i < N, get(i) = get(i + N) for i in [-N, -1], and every other index
\* raises IndexError.
C2_IndexNormalization ==
    (ClassIs("TextFile") /\ res.op = "get") =>
        LET N == LengthNow
            i == res.arg
        IN  /\ res.out.tag = "ok" <=> (-N <= i /\ i < N)
            /\ (-N <= i /\ i <= -1) => res.out = ItemNow(i + N)
            /\ (i >= N \/ i < -N) => res.out.tag = "IndexError"

\* C2 witness: a negative index was read and returned the last of several lines.
C2_Witness ==
    /\ ClassIs("TextFile")
    /\ res.op = "get"
    /\ res.arg = -1
    /\ LengthNow >= 2
    /\ res.out.tag = "ok"
    /\ res.out = ItemNow(LengthNow - 1)

\* The file is N records, each followed by the delimiter, with nothing after
\* the last one; record i is its segment without the delimiter.
WholeRecords == PyIndex(GetOffsets(1), -1) = Len(DataOf(1))
RecordContent(i) ==
    SubSeq(DataOf(1), GetOffsets(1)[i + 1] + 1, GetOffsets(1)[i + 2] - Len(views[1].newline))

\* C5: for a CustomNewlineTextFile with any multi-byte delimiter D over a
\* file of N records each followed by D, length() = N and both get(i) and the
\* i-th iterated item are record i without its trailing D.
C5_CustomDelimiterStripped ==
    (ClassIs("CustomNewlineTextFile") /\ WholeRecords) =>
        /\ res.op = "len" => res.out.val = Len(GetOffsets(1)) - 1
        /\ (res.op = "get" /\ res.out.tag = "ok") =>
              res.out.val = RecordContent(IF res.arg < 0 THEN res.arg + LengthNow ELSE res.arg)
        /\ res.op = "iter" =>
              /\ Len(res.out.val) = Len(GetOffsets(1)) - 1
              /\ \A i \in 0..(Len(res.out.val) - 1) : res.out.val[i + 1] = RecordContent(i)

\* C6: for a CsvFile, with or without header, length() is the number of
\* records iterate() yields and get(i) is the i-th of them.
C6_CsvIterationAgreesWithIndex ==
    (ClassIs("CsvFile") /\ res.op = "iter") =>
        /\ Len(res.out.val) = LengthNow
        /\ \A i \in 0..(LengthNow - 1) :
              /\ i < Len(res.out.val)
              /\ ItemNow(i) = Ok([shape |-> "record", rows |-> <<res.out.val[i + 1]>>])

\* C7: an integer index on a CsvFile returns exactly one record and a slice
\* returns a list with one record per selected line, whatever the lines hold
\* and however many the slice selects.
C7_ShapeFollowsIndexKind ==
    ClassIs("CsvFile") =>
        /\ (res.op = "get" /\ res.out.tag = "ok") =>
              res.out.val.shape = "record" /\ Len(res.out.val.rows) = 1
        /\ res.op = "slice" =>
              LET ind == SliceIndices(res.arg[1], res.arg[2], res.arg[3], LengthNow)
              IN  /\ res.out.val.shape = "list"
                  /\ Len(res.out.val.rows) = Len(PyRange(ind[1], ind[2], ind[3]))


(***************************************************************************)
(* TextFile.iterate(start, end): a generator over the map's own cursor.    *)
(* Calling iterate only creates the generator; each next() runs the body   *)
(* up to its next yield.                                                   *)
(***************************************************************************)
\* IterateLoop with the yielded line left unstripped.
IterateLoopUnstripped(g, mp) ==
    LET m == g.mm
        data == fs[mp[m].path].data
        pos == mp[m].pos
    IN  IF pos = g.stop
        THEN [gen |-> [g EXCEPT !.st = "done"], mp |-> mp]
        ELSE [gen |-> [g EXCEPT !.st = "running", !.out = Append(g.out, Readline(data, pos))],
              mp |-> [mp EXCEPT ![m].pos = ReadlineEnd(data, pos)]]

\* One turn of "while tell() != end: yield readline()...": the generator
\* stops when the cursor of its map is at stop, else reads one line.
IterateLoop(g, mp) ==
    LET m == g.mm
        data == fs[mp[m].path].data
        pos == mp[m].pos
    IN  IF pos = g.stop
        THEN [gen |-> [g EXCEPT !.st = "done"], mp |-> mp]
        ELSE [gen |-> [g EXCEPT !.st = "running",
                                !.out = Append(g.out, RStrip(Readline(data, pos), Linesep))],
              mp |-> [mp EXCEPT ![m].pos = ReadlineEnd(data, pos)]]

\* The first next(): the range test, the seek to offsets[start], the choice of
\* the stop offset, then the loop.
TextFile_iterate(g, H) ==
    LET v == g.v
        offsets == OffsetsValue(H, v)
        H1 == AfterOffsets(H, v)
        m == views[v].mm
    IN  IF g.start > g.end
        THEN [gen |-> [g EXCEPT !.st = "raised", !.err = "ValueError"], heap |-> H]
        ELSE IF ~PyIndexOk(offsets, g.start)
        THEN [gen |-> [g EXCEPT !.st = "raised", !.err = "IndexError"], heap |-> H1]
        ELSE LET stop == IF g.end < Len(offsets) THEN PyIndex(offsets, g.end)
                         ELSE PyIndex(offsets, -1)
                 sought == [H1.mp EXCEPT ![m].pos = PyIndex(offsets, g.start)]
                 turn == IterateLoop([g EXCEPT !.mm = m, !.stop = stop], sought)
             IN  [gen |-> turn.gen, heap |-> [H1 EXCEPT !.mp = turn.mp]]

\* view.iterate(start, end), bound to the free generator slot g
Iterate(g, v, start, end) ==
    /\ Live(v)
    /\ gens[g].st = "none"
    /\ gens' = [gens EXCEPT ![g] = [NoGen EXCEPT !.st = "created", !.v = v,
                                                 !.start = start, !.end = end]]
    /\ UNCHANGED <<fs, views, maps, fds, offsetsCache, lengthCache, scans, pickled, res>>

\* next(generator), for at most MaxYield lines.
GenNext(g) ==
    /\ gens[g].st \in {"created", "running"}
    /\ Len(gens[g].out) < MaxYield
    /\ IF gens[g].st = "created"
       THEN LET r == TextFile_iterate(gens[g], Heap)
            IN  /\ gens' = [gens EXCEPT ![g] = r.gen]
                /\ SetHeap(r.heap)
       ELSE LET r == IterateLoop(gens[g], maps)
            IN  /\ gens' = [gens EXCEPT ![g] = r.gen]
                /\ maps' = r.mp
                /\ UNCHANGED <<offsetsCache, lengthCache, scans>>
    /\ UNCHANGED <<fs, views, fds, pickled, res>>

(***************************************************************************)
(* SpecIter: one view and one iterate(start, end) generator, driven to its *)
(* end with length() calls in between.                                     *)
(***************************************************************************)
NextIter ==
    \/ \E start \in Indices, end \in Indices : Iterate(1, 1, start, end)
    \/ GenNext(1)
    \/ Length(1)

SpecIter == InitRead /\ [][NextIter]_vars


(***************************************************************************)
(* Claims about iterate(start, end), checked under SpecIter.               *)
(***************************************************************************)
\* [get(lo), ..., get(hi - 1)]
ItemsNow(lo, hi) == [k \in 1..(hi - lo) |-> ItemNow(lo + k - 1).val]

IsPrefix(a, b) == Len(a) <= Len(b) /\ a = SubSeq(b, 1, Len(a))

Started(g) == gens[g].st \in {"running", "done", "raised"}

\* What a generator over get(start) .. get(min(end, N) - 1) has done so far.
YieldsRange(g) ==
    LET want == ItemsNow(gens[g].start, Min(gens[g].end, LengthNow))
    IN  /\ gens[g].st \in {"running", "done"}
        /\ IsPrefix(gens[g].out, want)
        /\ gens[g].st = "done" => gens[g].out = want

RaisedOnly(g, err) ==
    gens[g].st = "raised" /\ gens[g].err = err /\ gens[g].out = <<>>

\* C3 as stated: for a TextFile of length N and any 0 <= start <= end the
\* generator yields get(start) .. get(min(end, N) - 1) in order and stops; for
\* start > end it raises ValueError and yields nothing.
C3_IterateYieldsRange ==
    (ClassIs("TextFile") /\ Started(1)) =>
        /\ (0 <= gens[1].start /\ gens[1].start <= gens[1].end) => YieldsRange(1)
        /\ gens[1].start > gens[1].end => RaisedOnly(1, "ValueError")

\* C3 amended: the range is yielded when 0 <= start <= end and start <= N;
\* for N < start <= end the generator raises IndexError and yields nothing;
\* for start > end it raises ValueError and yields nothing.
C3_IterateYieldsRangeWithinTable ==
    (ClassIs("TextFile") /\ Started(1)) =>
        /\ (0 <= gens[1].start /\ gens[1].start <= gens[1].end /\ gens[1].start <= LengthNow)
              => YieldsRange(1)
        /\ (LengthNow < gens[1].start /\ gens[1].start <= gens[1].end)
              => RaisedOnly(1, "IndexError")
        /\ gens[1].start > gens[1].end => RaisedOnly(1, "ValueError")

\* C3 witness: a generator over lines 1 .. end, end beyond the table, has
\* yielded two lines and stopped.
C3_Witness ==
    /\ ClassIs("TextFile")
    /\ gens[1].st = "done"
    /\ gens[1].start = 1
    /\ gens[1].end > LengthNow
    /\ Len(gens[1].out) = 2
    /\ gens[1].out # <<<<>>, <<>>>>

\* C10: for every class of view and every start <= end, a driven generator
\* raises or yields at most length() lines and stops; it is never left about
\* to yield again with the cursor already at end-of-region.
C10_IterateTerminates ==
    (gens[1].st \in {"running", "done"} /\ gens[1].start <= gens[1].end) =>
        /\ Len(gens[1].out) <= Max(LengthNow, 0)
        /\ ~(/\ gens[1].st = "running"
             /\ maps[gens[1].mm].pos = Len(fs[maps[gens[1].mm].path].data)
             /\ gens[1].stop # maps[gens[1].mm].pos)


(***************************************************************************)
(* Construction, serialization and teardown.                               *)
(***************************************************************************)
\* utils.fd_open, entering: try: fd = os.open(filename, flags).  When os.open
\* raises, fd is never bound.
fd_open_enter(path, F) ==
    IF fs[path].exists /\ fs[path].openable
    THEN [bound |-> TRUE, fd |-> Len(F) + 1, fds |-> Append(F, [open |-> TRUE, closes |-> 0])]
    ELSE [bound |-> FALSE, fd |-> 0, fds |-> F]

\* utils.fd_open, leaving (normally or by an exception): finally: os.close(fd).
\* With fd unbound the finally clause itself raises UnboundLocalError.
fd_open_exit(e) ==
    IF e.bound
    THEN [err |-> "", fds |-> [e.fds EXCEPT ![e.fd] = [open |-> FALSE, closes |-> @.closes + 1]]]
    ELSE [err |-> "UnboundLocalError", fds |-> e.fds]

\* with utils.fd_open(path, os.O_RDWR) as fd: self._mm = mmap.mmap(fd, 0, ...)
\* mmap raises ValueError on an empty file.
OpenMap(path, F, M) ==
    LET e == fd_open_enter(path, F)
        body == IF ~e.bound THEN "OSError"
                ELSE IF fs[path].data = <<>> THEN "ValueError"
                ELSE "ok"
        x == fd_open_exit(e)
    IN  [tag |-> IF x.err # "" THEN x.err ELSE body,
         fds |-> x.fds,
         maps |-> IF body = "ok" THEN Append(M, NewMap(path)) ELSE M,
         mm |-> IF body = "ok" THEN Len(M) + 1 ELSE 0]

\* TextFile.__init__
TextFile_init(view, path, F, M) ==
    IF ~fs[path].exists
    THEN [tag |-> "AssertionError",
          view |-> [view EXCEPT !.st = "failed", !.err = "AssertionError"],
          fds |-> F,
          maps |-> M]
    ELSE LET r == OpenMap(path, F, M)
         IN  [tag |-> r.tag,
              view |-> IF r.tag = "ok"
                       THEN [view EXCEPT !.st = "live", !.path = path, !.mm = r.mm]
                       ELSE [view EXCEPT !.st = "failed", !.path = path, !.err = r.tag],
              fds |-> r.fds,
              maps |-> r.maps]

\* TextFile.__getstate__ without "del state['_mm']".
TextFile_getstate_KeepsMm(view) ==
    [cls |-> view.cls, path |-> view.path, header |-> view.header,
     fieldnames |-> view.fieldnames, newline |-> view.newline, mm |-> view.mm]

\* TextFile.__getstate__: a copy of __dict__ without '_mm' (mm = 0: no such key).
TextFile_getstate(view) ==
    [cls |-> view.cls, path |-> view.path, header |-> view.header,
     fieldnames |-> view.fieldnames, newline |-> view.newline, mm |-> 0]

\* TextFile.__setstate__: __dict__.update(state), then a new map of self._path
\* is bound to self._mm; the map bound before, if any, is not closed.
TextFile_setstate(view, state, F, M) ==
    LET updated == [view EXCEPT !.cls = state.cls, !.path = state.path,
                                !.header = state.header, !.fieldnames = state.fieldnames,
                                !.newline = state.newline,
                                !.mm = IF state.mm # 0 THEN state.mm ELSE view.mm]
        r == OpenMap(state.path, F, M)
    IN  [tag |-> r.tag,
         view |-> IF r.tag = "ok" THEN [updated EXCEPT !.st = "live", !.mm = r.mm]
                  ELSE IF view.st = "live" THEN [updated EXCEPT !.err = r.tag]
                  ELSE [updated EXCEPT !.st = "failed", !.err = r.tag],
         fds |-> r.fds,
         maps |-> r.maps]

\* TextFile.__del__: if getattr(self, '_mm', None): self._mm.close().  The
\* truth test of a closed map raises ValueError and nothing is closed.
TextFile_del(view, M) ==
    IF view.mm # 0 /\ M[view.mm].open
    THEN [M EXCEPT ![view.mm].open = FALSE, ![view.mm].closedBy = "del"]
    ELSE M

\* Instances are numbered in the order they are created.
NewInstance(v) == views[v].st = "blank" /\ \A w \in ViewIds : w < v => views[w].st # "blank"

\* TextFile(path) on a new instance; the exception it raises, if any, is kept
\* in the instance's err.
Construct(v, path) ==
    /\ NewInstance(v)
    /\ Len(maps) < MaxMaps
    /\ LET r == TextFile_init(views[v], path, fds, maps)
       IN  /\ views' = [views EXCEPT ![v] = r.view]
           /\ fds' = r.fds
           /\ maps' = r.maps
    /\ UNCHANGED <<fs, offsetsCache, lengthCache, scans, pickled, gens, res>>

\* state = view.__getstate__()
GetState(v) ==
    /\ Live(v)
    /\ pickled' = [pickled EXCEPT ![v] = Some(TextFile_getstate(views[v]))]
    /\ UNCHANGED <<fs, views, maps, fds, offsetsCache, lengthCache, scans, gens, res>>

\* v.__setstate__(state of o): on a new instance, as unpickling does, or on a
\* live view of the same path, as the tests do.
SetState(v, o) ==
    /\ pickled[o] # None
    /\ \/ NewInstance(v)
       \/ Live(v) /\ views[v].path = pickled[o][1].path
    /\ Len(maps) < MaxMaps
    /\ LET r == TextFile_setstate(views[v], pickled[o][1], fds, maps)
       IN  /\ views' = [views EXCEPT ![v] = [r.view EXCEPT !.src = o]]
           /\ fds' = r.fds
           /\ maps' = r.maps
    /\ UNCHANGED <<fs, offsetsCache, lengthCache, scans, pickled, gens, res>>

\* The instance is finalized: __del__ runs once and the object is gone.
Del(v) ==
    /\ views[v].st \in {"live", "failed"}
    /\ maps' = TextFile_del(views[v], maps)
    /\ views' = [views EXCEPT ![v] = [BlankView EXCEPT !.st = "dead"]]
    /\ UNCHANGED <<fs, fds, offsetsCache, lengthCache, scans, pickled, gens, res>>

\* A map no instance and no generator refers to is an unreachable object: the
\* runtime may deallocate it at any later time, which unmaps it.
Referenced(m) ==
    \/ \E v \in ViewIds : views[v].st \in {"live", "failed"} /\ views[v].mm = m
    \/ \E g \in GenIds : gens[g].st = "running" /\ gens[g].mm = m

Collect(m) ==
    /\ maps[m].open
    /\ ~Referenced(m)
    /\ maps' = [maps EXCEPT ![m].open = FALSE, ![m].closedBy = "gc"]
    /\ UNCHANGED <<fs, views, fds, offsetsCache, lengthCache, scans, pickled, gens, res>>

(***************************************************************************)
(* SpecLife: instances constructed over good, empty, unopenable and        *)
(* missing paths, serialized, restored, read and finalized in any order.   *)
(***************************************************************************)
LifeFs ==
    [p \in Paths |->
        CASE p = "p" -> File(<<"a", LF>>)
          [] p = "q" -> File(<<"b", LF, "b", LF>>)
          [] p = "e" -> File(<<>>)
          [] p = "x" -> [exists |-> TRUE, openable |-> FALSE, data |-> <<"a">>]
          [] OTHER -> NoFile]

InitLife ==
    /\ fs = LifeFs
    /\ views = [v \in ViewIds |-> BlankView]
    /\ maps = <<>>
    /\ fds = <<>>
    /\ offsetsCache = <<>>
    /\ lengthCache = <<>>
    /\ scans = [v \in ViewIds |-> 0]
    /\ pickled = [v \in ViewIds |-> None]
    /\ gens = [g \in GenIds |-> NoGen]
    /\ res = NoRes

NextLife ==
    \/ \E v \in ViewIds, path \in Paths : Construct(v, path)
    \/ \E v \in ViewIds : GetState(v)
    \/ \E v \in ViewIds, o \in ViewIds : SetState(v, o)
    \/ \E v \in ViewIds : Del(v)
    \/ \E m \in 1..Len(maps) : Collect(m)
    \/ \E v \in ViewIds : Length(v)
    \/ \E v \in ViewIds, index \in {-1, 0} : GetItem(v, index)

SpecLife == InitLife /\ [][NextLife]_vars


(***************************************************************************)
(* Claims about serialization and resources, checked under SpecLife.       *)
(***************************************************************************)
\* C4: the state __getstate__ returns never holds the map, and a view
\* restored from it holds an open map of its own and has the same length()
\* and the same get(i) for every i as the view it was taken from, whether or
\* not that view had built its index.
C4_RoundTrip ==
    /\ \A o \in ViewIds : pickled[o] # None => pickled[o][1].mm = 0
    /\ \A r \in ViewIds :
          (Live(r) /\ views[r].src # 0 /\ Live(views[r].src)) =>
              /\ views[r].mm # 0
              /\ maps[views[r].mm].open
              /\ \A w \in ViewIds \ {r} : Live(w) => views[w].mm # views[r].mm
              /\ LenCall(r).out = LenCall(views[r].src).out
              /\ \A i \in Indices : IntItemCall(r, i).out = IntItemCall(views[r].src, i).out

\* C4 witness: a second instance restored from the state of an indexed view
\* of the two-line file was read and returned a line.
C4_Witness ==
    \E r \in ViewIds :
        /\ Live(r)
        /\ views[r].src \notin {0, r}
        /\ Live(views[r].src)
        /\ views[r].path = "q"
        /\ LruHas(offsetsCache, views[r].src)
        /\ res.op = "get" /\ res.v = r /\ res.arg = -1 /\ res.out = Ok(<<"b">>)

\* C9: every descriptor fd_open acquired is released exactly once when its
\* scope is left, no release is attempted on a descriptor never acquired, and
\* every map is released exactly once, at its view's teardown: an open map
\* always belongs to a live view.
C9_ResourceDiscipline ==
    /\ \A f \in 1..Len(fds) : ~fds[f].open /\ fds[f].closes = 1
    /\ \A v \in ViewIds : views[v].err # "UnboundLocalError"
    /\ \A m \in 1..Len(maps) :
          /\ maps[m].open => \E v \in ViewIds : Live(v) /\ views[v].mm = m
          /\ ~maps[m].open => maps[m].closedBy = "del"

(***************************************************************************)
(* SpecCache: one TextFile among any number of other instances.  Each      *)
(* other instance is new and has len() called on it once, which caches its *)
(* table and its length under its own key (written 0).                     *)
(***************************************************************************)
OtherViewLength ==
    /\ offsetsCache' = LruPut(offsetsCache, 0, <<>>)
    /\ lengthCache' = LruPut(lengthCache, 0, 0)
    /\ UNCHANGED <<fs, views, maps, fds, scans, pickled, gens, res>>

InitCache ==
    /\ fs = LifeFs
    /\ views = [v \in ViewIds |->
                  IF v = 1 THEN [BlankView EXCEPT !.st = "live", !.path = "q", !.mm = 1]
                  ELSE BlankView]
    /\ maps = <<NewMap("q")>>
    /\ fds = <<[open |-> FALSE, closes |-> 1]>>
    /\ offsetsCache = <<>>
    /\ lengthCache = <<>>
    /\ scans = [v \in ViewIds |-> 0]
    /\ pickled = [v \in ViewIds |-> None]
    /\ gens = [g \in GenIds |-> NoGen]
    /\ res = NoRes

NextCache ==
    \/ Length(1)
    \/ GetItem(1, 0)
    \/ OtherViewLength

SpecCache == InitCache /\ [][NextCache]_vars

\* C8: the offset table is built lazily and at most once per instance:
\* nothing is scanned before the first read, and no later call on this view
\* or on any number of other views makes this view's region be scanned again;
\* a cached table and length are the ones the first scan produced.
C8_BuiltAtMostOnce ==
    \A v \in ViewIds :
        /\ scans[v] <= 1
        /\ (res.op = "none" /\ ~LruHas(offsetsCache, v)) => scans[v] = 0
        /\ LruHas(offsetsCache, v) => LruValue(offsetsCache, v) = GetOffsets(v)
        /\ LruHas(lengthCache, v) => LruValue(lengthCache, v) = Len(GetOffsets(v)) - 1


(***************************************************************************)
(* SpecInter: reads of one view interleaved.  Two iterate(start, end)      *)
(* generators over the same view are advanced in any order, with get(i),   *)
(* slices and length() in between.  Both generators read through the one   *)
(* cursor of the view's map.                                               *)
(***************************************************************************)
RangeEnds == 0..MaxLen
InterIndices == {-1, 0, 1}
InterAlphabet == {"a", LF}

\* A TextFile over a file of lines of "a".
InitInter ==
    /\ InitRead
    /\ ClassIs("TextFile")
    /\ \A k \in 1..Len(fs["p"].data) : fs["p"].data[k] \in InterAlphabet

NextInter ==
    \/ \E g \in GenIds, start \in RangeEnds, end \in RangeEnds :
          start <= end /\ Iterate(g, 1, start, end)
    \/ \E g \in GenIds : GenNext(g)
    \/ \E index \in InterIndices : GetItem(1, index)
    \/ \E start \in SliceBounds : GetSlice(1, <<start, None, None>>)
    \/ Length(1)

SpecInter == InitInter /\ [][NextInter]_vars

\* C11: reads on one view do not interfere: under every interleaving of the
\* steps of two iterate generators with get(i), slices and length() on a
\* TextFile, each generator with 0 <= start <= end <= N yields exactly its own
\* lines get(start) .. get(end - 1) in order and stops, never left running
\* with the cursor at end-of-region, and every get(i) returns line i.
C11_ReadsDoNotInterfere ==
    ClassIs("TextFile") =>
        /\ \A g \in GenIds :
              (/\ Started(g)
               /\ 0 <= gens[g].start
               /\ gens[g].start <= gens[g].end
               /\ gens[g].end <= LengthNow) =>
                  /\ YieldsRange(g)
                  /\ ~(/\ gens[g].st = "running"
                       /\ maps[gens[g].mm].pos = Len(fs[maps[gens[g].mm].path].data)
                       /\ gens[g].stop # maps[gens[g].mm].pos)
        /\ (res.op = "get" /\ res.v = 1) => res.out = ItemNow(res.arg)


====
